---- MODULE Spec2Model ----
(***************************************************************************)
(* delivery_multi_destination: the overrides of delivery.carrier found in  *)
(* models/delivery_carrier.py.  The carrier table is the state; every      *)
(* override is an action (send_shipping, whose intermediate states matter, *)
(* is a small process with a program counter).                             *)
(***************************************************************************)
EXTENDS Integers, Sequences, FiniteSets, TLC

\* ------------------------------------------------------------------ bounds
MaxCarriers == 3          \* carrier records 1..MaxCarriers
MaxPickings == 2          \* pickings handed to one send_shipping call
MaxDomain == 1            \* leaves of a caller-supplied search domain

\* ------------------------------------------------------------- value sets
Carriers == 1..MaxCarriers
NoCarrier == 0                              \* an empty many2one (False)
Partners == {"p1", "p2"}                    \* addresses
Companies == {"c1", "c2"}
NoCompany == "none"                         \* company_id not set
Names == {"a", "b"}
DeliveryTypes == {"fixed", "base_on_rule", "base_on_destination"}
DestinationTypes == {"one", "multi"}
NoValue == "false"                          \* a selection field holding False

VARIABLES
    carriers,     \* the delivery.carrier table: id -> record
    last,         \* the last completed call of a one-step method, with its result
    pc,           \* send_shipping: position in the method
    self_,        \* send_shipping: the recordset it is called on (an id or NoCarrier)
    pickings,     \* send_shipping: carrier_id of each picking iterated so far
    pi,           \* send_shipping: index of the picking being processed
    p,            \* send_shipping: the loop variable p (its read-only fields)
    cands,        \* send_shipping: the filtered children of the current picking
    ci,           \* send_shipping: number of candidates already scanned
    picking_res,  \* send_shipping: the local picking_res
    exc,          \* send_shipping: whether the delegated booking raised
    res,          \* send_shipping: the local res / the returned value
    log           \* send_shipping: children consulted for the current picking

vars == <<carriers, last, pc, self_, pickings, pi, p, cands, ci, picking_res, exc, res, log>>
shipVars == <<pc, self_, pickings, pi, p, cands, ci, picking_res, exc, res, log>>

ids == DOMAIN carriers

NoCall == [op |-> "none"]

\* ------------------------------------------------ destination_type fields

\* Mutant: the compute method without its base_on_destination branch.
_compute_destination_type_one(rec) == "one"

\* The value the compute method assigns to destination_type.
_compute_destination_type(rec) ==
    IF rec.delivery_type = "base_on_destination" THEN "multi" ELSE "one"

\* Mutant: leaving multi resets delivery_type to "fixed" whatever it was.
_inverse_destination_type_reset(rec) ==
    IF rec.destination_type = "multi"
    THEN [rec EXCEPT !.delivery_type = "base_on_destination"]
    ELSE [rec EXCEPT !.delivery_type = "fixed"]

\* The record after the inverse method ran on it.
_inverse_destination_type(rec) ==
    IF rec.destination_type = "multi"
    THEN [rec EXCEPT !.delivery_type = "base_on_destination"]
    ELSE IF rec.delivery_type = "base_on_destination"
         THEN [rec EXCEPT !.delivery_type = "fixed"]
         ELSE rec

Recomputed(rec) == [rec EXCEPT !.destination_type = _compute_destination_type(rec)]

\* write({"delivery_type": v}): the dependency recomputes destination_type.
WriteDeliveryType(c, v) ==
    /\ c \in ids
    /\ carriers' = [carriers EXCEPT ![c] = Recomputed([@ EXCEPT !.delivery_type = v])]
    /\ last' = [op |-> "write_delivery_type", carrier |-> c, value |-> v,
                before |-> carriers[c].delivery_type]
    /\ UNCHANGED shipVars

\* write({"destination_type": v}): the value is stored, then the inverse runs.
\* The inverse's own write to delivery_type marks destination_type for
\* recomputation; the framework skips that recomputation while the field is
\* protected by the write, so both outcomes are kept.
WriteDestinationType(c, v) ==
    /\ c \in ids
    /\ LET inv == _inverse_destination_type([carriers[c] EXCEPT !.destination_type = v])
       IN \E recompute \in BOOLEAN :
            carriers' = [carriers EXCEPT
                ![c] = IF recompute /\ inv.delivery_type # carriers[c].delivery_type
                       THEN Recomputed(inv) ELSE inv]
    /\ last' = [op |-> "write_destination_type", carrier |-> c, value |-> v,
                before |-> carriers[c].delivery_type]
    /\ UNCHANGED shipVars

\* ------------------------------------------------------- search / listing

\* The ids of S in the table's default order (ascending id).
RECURSIVE Ordered(_)
Ordered(S) ==
    IF S = {} THEN <<>>
    ELSE LET m == CHOOSE x \in S : \A y \in S : x <= y
         IN <<m>> \o Ordered(S \ {m})

Range(s) == {s[i] : i \in DOMAIN s}

NoneDomain == <<[field |-> "none", op |-> "none", value |-> 0]>>   \* domain=None
ParentFilter == [field |-> "parent_id", op |-> "=", value |-> NoCarrier]

\* One domain leaf (field, operator, value) evaluated on record c.
EvalLeaf(leaf, c) ==
    LET v == IF leaf.field = "parent_id" THEN carriers[c].parent_id ELSE c
    IN IF leaf.op = "=" THEN v = leaf.value ELSE v # leaf.value

\* The inherited search: the records satisfying every leaf of the domain
\* (leaves are implicitly and-ed; None is the empty domain), in default order.
super_search(domain) ==
    Ordered({c \in ids :
        domain = NoneDomain \/ \A i \in DOMAIN domain : EvalLeaf(domain[i], c)})

\* The inherited name_search: the name operand and args, and-ed.
super_name_search(name, args) ==
    Ordered({c \in Range(super_search(args)) : name = "" \/ carriers[c].name = name})

\* Mutant: the parent filter is never added.
search_domain_unfiltered(domain, show_children_carriers) == domain

\* search(): the domain handed to the inherited search.
search_domain(domain, show_children_carriers) ==
    IF ~show_children_carriers
    THEN (IF domain = NoneDomain THEN <<>> ELSE domain) \o <<ParentFilter>>
    ELSE domain

search(domain, show_children_carriers) ==
    super_search(search_domain(domain, show_children_carriers))

name_search(name, args, show_children_carriers) ==
    super_name_search(name, search_domain(args, show_children_carriers))

\* Reading carrier.child_ids: the one2many is read by a search on the inverse
\* field in the context of the record it is read from.
child_ids(c, show_children_carriers) ==
    search(<<[field |-> "parent_id", op |-> "=", value |-> c]>>, show_children_carriers)

Search(domain, show) ==
    /\ last = NoCall
    /\ last' = [op |-> "search", name |-> "", domain |-> domain, show |-> show,
                result |-> search(domain, show)]
    /\ UNCHANGED <<carriers, shipVars>>

NameSearch(name, args, show) ==
    /\ last = NoCall
    /\ last' = [op |-> "name_search", name |-> name, domain |-> args, show |-> show,
                result |-> name_search(name, args, show)]
    /\ UNCHANGED <<carriers, shipVars>>

\* The caller takes the result of the last call; the next call can start.
Return ==
    /\ last # NoCall
    /\ last' = NoCall
    /\ UNCHANGED <<carriers, shipVars>>

\* ---------------------------------------------- availability and rating

\* The address-matching predicate of the delivery module: the carrier's
\* destination rule (its zone) covers the partner's address.
_match_address(c, partner) == partner \in carriers[c].zone

\* The inherited available_carriers: the candidates whose rule matches.
super_available_carriers(candidates, partner) ==
    SelectSeq(candidates, LAMBDA c : _match_address(c, partner))

\* Mutant: every carrier is tested itself, multi or not.
available_carriers_self(S, partner) ==
    Ordered({carrier \in S : super_available_carriers(<<carrier>>, partner) # <<>>})

\* available_carriers(partner) called on the recordset S.
available_carriers(S, partner) ==
    Ordered({carrier \in S :
        LET candidates == IF carriers[carrier].destination_type = "one"
                          THEN <<carrier>>
                          ELSE child_ids(carrier, TRUE)
        IN super_available_carriers(candidates, partner) # <<>>})

AvailableCarriers(S, partner) ==
    /\ last = NoCall
    /\ last' = [op |-> "available_carriers", input |-> S, partner |-> partner,
                result |-> available_carriers(S, partner)]
    /\ UNCHANGED <<carriers, shipVars>>

\* The inherited rate_shipment of carrier c: the rate c's own pricing computes.
NoRate == [kind |-> "none", carrier |-> NoCarrier, partner |-> ""]
super_rate_shipment(c, partner) == [kind |-> "rate", carrier |-> c, partner |-> partner]

\* The loop over carrier.child_ids from position i on: the value returned and
\* the children whose inherited rate computation was invoked.
RECURSIVE RateScan(_, _, _)
RateScan(children, i, partner) ==
    IF i > Len(children) THEN [result |-> NoRate, rated |-> <<>>]
    ELSE IF _match_address(children[i], partner)
         THEN [result |-> super_rate_shipment(children[i], partner),
               rated |-> <<children[i]>>]
         ELSE RateScan(children, i + 1, partner)

\* Mutant: the children are read without show_children_carriers.
rate_shipment_hidden(c, partner) ==
    IF carriers[c].destination_type = "one"
    THEN [result |-> super_rate_shipment(c, partner), rated |-> <<c>>]
    ELSE RateScan(child_ids(c, FALSE), 1, partner)

\* Mutant: with no matching child the carrier's own rate is returned.
rate_shipment_fallback(c, partner) ==
    LET r == RateScan(child_ids(c, TRUE), 1, partner)
    IN IF carriers[c].destination_type = "one" \/ r.result = NoRate
       THEN [result |-> super_rate_shipment(c, partner), rated |-> <<c>>]
       ELSE r

\* rate_shipment(order) called on carrier c; partner is order.partner_shipping_id.
rate_shipment(c, partner) ==
    IF carriers[c].destination_type = "one"
    THEN [result |-> super_rate_shipment(c, partner), rated |-> <<c>>]
    ELSE RateScan(child_ids(c, TRUE), 1, partner)

RateShipment(c, partner) ==
    /\ last = NoCall
    /\ c \in ids
    /\ LET r == rate_shipment(c, partner)
       IN last' = [op |-> "rate_shipment", carrier |-> c, partner |-> partner,
                   result |-> r.result, rated |-> r.rated]
    /\ UNCHANGED <<carriers, shipVars>>

\* ------------------------------------------------------------ send_shipping

NoTracking == "false"                       \* tracking_number: False
NoPicking == [company_id |-> NoCompany, partner_id |-> ""]
Pickings == [company_id : Companies, partner_id : Partners]

\* What the inherited send_shipping of a child can do with one picking: raise,
\* return its booking, or return nothing.
BookingOutcomes == {"raise", "booked", "empty"}
Booking(sub) == <<[exact_price |-> 0, tracking_number |-> "trk"]>>

\* Mutant: no company filter.
FilteredChildren_all(c, q) == child_ids(c, TRUE)

\* The children kept by the company filter for picking q, in stored order.
FilteredChildren(c, q) ==
    SelectSeq(child_ids(c, TRUE),
              LAMBDA x : carriers[x].company_id = NoCompany
                         \/ carriers[x].company_id = q.company_id)

\* Mutant: the price is read from the carrier called on, not from the child.
FixedResult_parent(sub) ==
    <<[exact_price |-> carriers[self_].fixed_price, tracking_number |-> NoTracking]>>

\* The synthetic result of a matching fixed child.
FixedResult(sub) ==
    <<[exact_price |-> carriers[sub].fixed_price, tracking_number |-> NoTracking]>>

\* p.carrier_id = subcarrier.id, on picking i of the list.
Assigned(pks, i, sub) == [pks EXCEPT ![i] = sub]
\* Mutant: no finally clause.
Restored_not(pks, i, carrier) == pks

\* finally: p.carrier_id = carrier, on picking i of the list.
Restored(pks, i, carrier) == [pks EXCEPT ![i] = carrier]

Entry(sub, outcome, result) ==
    [child |-> sub, outcome |-> outcome, result |-> result, carrier_ref |-> pickings[pi]]

\* destination_type is "one", or the method is called on an empty recordset:
\* the inherited method does the whole job, on n pickings.
SendShippingDirect(s, n) ==
    /\ pc = "idle" /\ last = NoCall
    /\ IF s = NoCarrier THEN TRUE ELSE carriers[s].destination_type = "one"
    /\ last' = [op |-> "send_shipping", carrier |-> s]
    /\ self_' = s
    /\ pickings' = [i \in 1..n |-> s]
    /\ \E ok \in BOOLEAN :
         IF ok THEN pc' = "done" /\ res' = [i \in 1..n |-> Booking(s)[1]]
               ELSE pc' = "raised" /\ res' = <<>>
    /\ UNCHANGED <<carriers, pi, p, cands, ci, picking_res, exc, log>>

\* Otherwise: res = [] and the loop over the pickings starts.
SendShippingMulti(s) ==
    /\ pc = "idle" /\ last = NoCall
    /\ s # NoCarrier /\ carriers[s].destination_type # "one"
    /\ last' = [op |-> "send_shipping", carrier |-> s]
    /\ self_' = s
    /\ res' = <<>> /\ pi' = 0 /\ pc' = "picking"
    /\ UNCHANGED <<carriers, pickings, p, cands, ci, picking_res, exc, log>>

\* for p in pickings: the list is exhausted, return res.
ReturnRes ==
    /\ pc = "picking"
    /\ pc' = "done"
    /\ UNCHANGED <<carriers, last, self_, pickings, pi, p, cands, ci, picking_res, exc,
                   res, log>>

\* for p in pickings: the next picking q, shipped with the carrier called on.
ForPicking(q) ==
    /\ pc = "picking" /\ pi < MaxPickings
    /\ pi' = pi + 1
    /\ p' = q
    /\ pickings' = Append(pickings, self_)
    /\ picking_res' = <<>>
    /\ cands' = FilteredChildren(self_, q)
    /\ ci' = 0 /\ exc' = FALSE /\ log' = <<>>
    /\ pc' = "child"
    /\ UNCHANGED <<carriers, last, self_, res>>

\* for subcarrier in ...: the children are exhausted.
EndOfChildren ==
    /\ pc = "child" /\ ci = Len(cands)
    /\ pc' = "check"
    /\ UNCHANGED <<carriers, last, self_, pickings, pi, p, cands, ci, picking_res, exc,
                   res, log>>

\* A fixed child: its address test, and the synthetic result when it matches.
FixedChild ==
    /\ pc = "child" /\ ci < Len(cands)
    /\ LET sub == cands[ci + 1] IN
         /\ carriers[sub].delivery_type = "fixed"
         /\ IF _match_address(sub, p.partner_id)
            THEN /\ picking_res' = FixedResult(sub)
                 /\ log' = Append(log, Entry(sub, "fixed", FixedResult(sub)))
                 /\ pc' = "check"
            ELSE /\ log' = Append(log, Entry(sub, "rejected", <<>>))
                 /\ UNCHANGED <<picking_res, pc>>
    /\ ci' = ci + 1
    /\ UNCHANGED <<carriers, last, self_, pickings, pi, p, cands, exc, res>>

\* A non-fixed child: p.carrier_id = subcarrier.id
AssignCarrier ==
    /\ pc = "child" /\ ci < Len(cands)
    /\ LET sub == cands[ci + 1] IN
         /\ carriers[sub].delivery_type # "fixed"
         /\ pickings' = Assigned(pickings, pi, sub)
    /\ pc' = "invoke"
    /\ UNCHANGED <<carriers, last, self_, pi, p, cands, ci, picking_res, exc, res, log>>

\* The inherited send_shipping of the child, on the picking alone.
InvokeChild ==
    /\ pc = "invoke"
    /\ LET sub == cands[ci + 1] IN
         \E out \in BookingOutcomes :
            /\ exc' = (out = "raise")
            /\ picking_res' = IF out = "booked" THEN Booking(sub) ELSE <<>>
            /\ log' = Append(log, Entry(sub, out,
                                  IF out = "booked" THEN Booking(sub) ELSE <<>>))
    /\ pc' = "finally"
    /\ UNCHANGED <<carriers, last, self_, pickings, pi, p, cands, ci, res>>

\* finally: p.carrier_id = carrier; then break, or pass and the next child.
Finally ==
    /\ pc = "finally"
    /\ pickings' = Restored(pickings, pi, self_)
    /\ ci' = ci + 1
    /\ exc' = FALSE
    /\ pc' = IF exc THEN "child" ELSE "check"
    /\ UNCHANGED <<carriers, last, self_, pi, p, cands, picking_res, res, log>>

\* Mutant: an empty picking_res is accumulated without an error.
CheckResult_silent ==
    /\ pc = "check"
    /\ pc' = "picking" /\ res' = res \o picking_res
    /\ UNCHANGED <<carriers, last, self_, pickings, pi, p, cands, ci, picking_res, exc, log>>

\* if not picking_res: raise ValidationError; res += picking_res
CheckResult ==
    /\ pc = "check"
    /\ IF picking_res = <<>>
       THEN pc' = "raised" /\ UNCHANGED res
       ELSE pc' = "picking" /\ res' = res \o picking_res
    /\ UNCHANGED <<carriers, last, self_, pickings, pi, p, cands, ci, picking_res, exc, log>>

\* ------------------------------------------------------------ start states
IdleShip ==
    /\ pc = "idle" /\ self_ = NoCarrier /\ pickings = <<>> /\ pi = 0 /\ p = NoPicking
    /\ cands = <<>> /\ ci = 0 /\ picking_res = <<>> /\ exc = FALSE
    /\ res = <<>> /\ log = <<>>

\* A top-level carrier as create() leaves it: destination_type computed.
TopCarrier(dt, name) ==
    Recomputed([parent_id |-> NoCarrier, delivery_type |-> dt, destination_type |-> NoValue,
                company_id |-> NoCompany, zone |-> {}, fixed_price |-> 0, name |-> name])

InitFields ==
    /\ carriers \in {t \in [Carriers -> {TopCarrier(dt, "a") : dt \in DeliveryTypes}] : TRUE}
    /\ last = NoCall
    /\ IdleShip

NextFields ==
    \/ \E c \in Carriers, v \in DeliveryTypes : WriteDeliveryType(c, v)
    \/ \E c \in Carriers, v \in DestinationTypes \cup {NoValue} : WriteDestinationType(c, v)

SpecFields == InitFields /\ [][NextFields]_vars

\* C1: after any sequence of writes to delivery_type and destination_type,
\* destination_type is "multi" exactly when delivery_type is
\* "base_on_destination".
C1_DestinationIffDelivery ==
    \A c \in ids :
        (carriers[c].destination_type = "multi")
            <=> (carriers[c].delivery_type = "base_on_destination")

C1_Witness ==
    /\ last.op = "write_destination_type" /\ last.value = "multi"
    /\ last.before = "base_on_rule"
    /\ carriers[last.carrier].delivery_type = "base_on_destination"

\* C2: writing destination_type = "one" resets a delivery_type of
\* "base_on_destination" to "fixed" and leaves any other delivery_type as it was.
C2_InverseOne ==
    (last.op = "write_destination_type" /\ last.value = "one") =>
        carriers[last.carrier].delivery_type =
            IF last.before = "base_on_destination" THEN "fixed" ELSE last.before

C2_Witness ==
    /\ last.op = "write_destination_type" /\ last.value = "one"
    /\ last.before = "base_on_destination"
    /\ carriers[last.carrier].delivery_type = "fixed"
\* ---------------------------------------------------------- SpecSearch
\* Domains a caller passes: None, or up to MaxDomain of these leaves.
Leaves ==
    {[field |-> "parent_id", op |-> o, value |-> v] : o \in {"=", "!="}, v \in {NoCarrier, 1}}
        \cup {[field |-> "id", op |-> "!=", value |-> 1]}
Domains == {NoneDomain} \cup UNION {[1..n -> Leaves] : n \in 0..MaxDomain}

\* Any parent assignment (a record is never its own parent), any names.
Record(par, dt, co, z, price, name) ==
    Recomputed([parent_id |-> par, delivery_type |-> dt, destination_type |-> NoValue,
                company_id |-> co, zone |-> z, fixed_price |-> price, name |-> name])

InitSearch ==
    /\ carriers \in {[c \in Carriers |-> Record(par[c], "fixed", NoCompany, {}, 0, n[c])] :
                        par \in {f \in [Carriers -> Carriers \cup {NoCarrier}] :
                                    \A c \in Carriers : f[c] # c},
                        n \in [Carriers -> Names]}
    /\ last = NoCall
    /\ IdleShip

NextSearch ==
    \/ Return
    \/ \E d \in Domains, show \in BOOLEAN : Search(d, show)
    \/ \E n \in Names \cup {""}, d \in Domains, show \in BOOLEAN : NameSearch(n, d, show)

SpecSearch == InitSearch /\ [][NextSearch]_vars

\* The records a caller's domain (and name operand) selects, children included.
Selected(name, domain) ==
    {c \in ids :
        /\ domain = NoneDomain \/ \A i \in DOMAIN domain : EvalLeaf(domain[i], c)
        /\ name = "" \/ carriers[c].name = name}

\* C3: without the show_children_carriers flag search and name_search return
\* exactly the selected records that have no parent (so never a child); with
\* the flag they return every selected record, children included.
C3_ListingFilter ==
    last.op \in {"search", "name_search"} =>
        /\ ~last.show =>
             /\ \A c \in Range(last.result) : carriers[c].parent_id = NoCarrier
             /\ Range(last.result) =
                   {c \in Selected(last.name, last.domain) : carriers[c].parent_id = NoCarrier}
        /\ last.show => Range(last.result) = Selected(last.name, last.domain)

C3_Witness ==
    /\ last.op = "search" /\ ~last.show /\ last.domain = NoneDomain
    /\ \E c \in ids : carriers[c].parent_id # NoCarrier
    /\ last.result # <<>>

\* ----------------------------------------------------------- SpecQuote
\* Carrier trees: a parent is an older record; any zone; one or multi.
InitQuote ==
    /\ carriers \in {[c \in Carriers |->
                          Record(par[c], k[c].delivery_type, NoCompany, k[c].zone, 0, "a")] :
                        par \in {f \in [Carriers -> Carriers \cup {NoCarrier}] :
                                    \A c \in Carriers : f[c] < c},
                        k \in [Carriers -> [delivery_type : {"fixed", "base_on_destination"},
                                            zone : SUBSET Partners]]}
    /\ last = NoCall
    /\ IdleShip

NextQuote ==
    \/ Return
    \/ \E S \in SUBSET Carriers, partner \in Partners : AvailableCarriers(S, partner)
    \/ \E c \in Carriers, partner \in Partners : RateShipment(c, partner)

SpecQuote == InitQuote /\ [][NextQuote]_vars

\* The children of c as stored: the records whose parent is c.
ChildrenOf(c) == {k \in ids : carriers[k].parent_id = c}
MatchingChildren(c, partner) == {k \in ChildrenOf(c) : partner \in carriers[k].zone}

\* C4: on a multi carrier with a matching child, rate_shipment returns the
\* rate of the first matching child in stored order and invokes the rate
\* computation of that child only.
C4_FirstMatchWins ==
    (/\ last.op = "rate_shipment"
     /\ carriers[last.carrier].destination_type = "multi"
     /\ MatchingChildren(last.carrier, last.partner) # {}) =>
        LET first == CHOOSE k \in MatchingChildren(last.carrier, last.partner) :
                        \A j \in MatchingChildren(last.carrier, last.partner) : k <= j
        IN /\ last.result = [kind |-> "rate", carrier |-> first, partner |-> last.partner]
           /\ last.rated = <<first>>

C4_Witness ==
    /\ last.op = "rate_shipment"
    /\ carriers[last.carrier].destination_type = "multi"
    /\ Cardinality(MatchingChildren(last.carrier, last.partner)) >= 2
    /\ last.result.kind = "rate"

\* C7: available_carriers returns a subset of its input in which a multi
\* carrier appears exactly when one of its children matches the partner; a
\* multi carrier without children is never returned.
C7_Available ==
    last.op = "available_carriers" =>
        /\ Range(last.result) \subseteq last.input
        /\ \A c \in last.input : carriers[c].destination_type = "multi" =>
             /\ c \in Range(last.result) <=> MatchingChildren(c, last.partner) # {}
             /\ ChildrenOf(c) = {} => c \notin Range(last.result)

C7_Witness ==
    /\ last.op = "available_carriers"
    /\ \E c \in Range(last.result) :
         /\ carriers[c].destination_type = "multi"
         /\ ~(last.partner \in carriers[c].zone)
    /\ \E c \in last.input \ Range(last.result) :
         /\ carriers[c].destination_type = "multi"
         /\ ChildrenOf(c) # {}

\* C8: on a multi carrier none of whose children matches (or without
\* children) rate_shipment returns the empty "no rate" value, which no child's
\* rate computation returns, and invokes no rate computation.
C8_NoMatchNoRate ==
    (/\ last.op = "rate_shipment"
     /\ carriers[last.carrier].destination_type = "multi"
     /\ MatchingChildren(last.carrier, last.partner) = {}) =>
        /\ last.result = NoRate
        /\ last.rated = <<>>
        /\ \A k \in ids, q \in Partners : super_rate_shipment(k, q) # last.result

C8_Witness ==
    /\ last.op = "rate_shipment"
    /\ carriers[last.carrier].destination_type = "multi"
    /\ ChildrenOf(last.carrier) # {}
    /\ MatchingChildren(last.carrier, last.partner) = {}
    /\ last.result = NoRate
\* ------------------------------------------------------------ SpecShip
\* Carrier 1 and its children 2..n.  A child is fixed or rule based and of any
\* company; its fixed price tells it from its siblings.  send_shipping reads
\* the zone of fixed children only, so a rule based child has the empty zone.
ChildKinds ==
    [delivery_type : {"fixed"}, company_id : Companies \cup {NoCompany},
     zone : SUBSET Partners]
        \cup [delivery_type : {"base_on_rule"}, company_id : Companies \cup {NoCompany},
              zone : {{}}]

InitShip ==
    /\ \E n \in Carriers :
         carriers \in {[c \in 1..n |->
                          IF c = 1 THEN TopCarrier(dt, "a")
                          ELSE Record(1, k[c].delivery_type, k[c].company_id, k[c].zone,
                                      10 * c, "a")] :
                        dt \in {"fixed", "base_on_destination"}, k \in [2..n -> ChildKinds]}
    /\ last = NoCall
    /\ IdleShip

NextShip ==
    \/ \E s \in {1, NoCarrier}, n \in 0..MaxPickings : SendShippingDirect(s, n)
    \/ SendShippingMulti(1)
    \/ ReturnRes
    \/ \E q \in Pickings : ForPicking(q)
    \/ EndOfChildren
    \/ FixedChild
    \/ AssignCarrier
    \/ InvokeChild
    \/ Finally
    \/ CheckResult

SpecShip == InitShip /\ [][NextShip]_vars
\* The call is a routed one and picking pi has just been settled: its result
\* was accumulated (pc is "picking" or "done") or the call raised.
Settled == pc \in {"picking", "done", "raised"} /\ pi >= 1
Accepted == Settled /\ pc # "raised"

\* As stored: the children of the carrier called on that have no company or
\* the company of the current picking, oldest first.
Eligible ==
    Ordered({k \in ChildrenOf(self_) :
                carriers[k].company_id \in {NoCompany, p.company_id}})
IsFixed(k) == carriers[k].delivery_type = "fixed"
Accepts(k) == p.partner_id \in carriers[k].zone
PriceOf(k) == [exact_price |-> carriers[k].fixed_price, tracking_number |-> NoTracking]
Invoked == {i \in DOMAIN log : log[i].outcome \in BookingOutcomes}

AllFailed ==
    /\ Len(log) = Len(Eligible)
    /\ \A i \in DOMAIN log :
         /\ log[i].child = Eligible[i]
         /\ log[i].outcome \in {"rejected", "raise"}

C9_FirstEligibleWins ==
    Accepted =>
        /\ Len(log) >= 1 /\ Len(log) <= Len(Eligible)
        /\ \A i \in DOMAIN log :
             /\ log[i].child = Eligible[i]
             /\ carriers[log[i].child].company_id \in {NoCompany, p.company_id}
             /\ IsFixed(log[i].child) <=> log[i].outcome \in {"fixed", "rejected"}
             /\ IsFixed(log[i].child) => (log[i].outcome = "fixed" <=> Accepts(log[i].child))
             /\ i < Len(log) => log[i].outcome \in {"rejected", "raise"}
        /\ LET w == log[Len(log)]
           IN /\ w.outcome \in {"fixed", "booked"}
              /\ w.outcome = "fixed" => w.result = <<PriceOf(w.child)>>
              /\ Len(res) = pi /\ res[pi] = w.result[1]

C9_Witness ==
    /\ Accepted
    /\ Len(log) >= 2
    /\ log[1].outcome = "raise"
    /\ log[Len(log)].outcome = "booked"
    /\ carriers[log[Len(log)].child].company_id = p.company_id

\* C10: a non-fixed child's booking is invoked only while the picking's
\* carrier reference is that child, and once the attempt is over the reference
\* is the parent again before the next child, the next picking, the return or
\* the error.
C10_ScopedCarrier ==
    /\ \A i \in Invoked : log[i].carrier_ref = log[i].child
    /\ pc = "invoke" => pickings[pi] = cands[ci + 1]
    /\ pc \in {"child", "check", "picking", "done", "raised"} =>
         \A i \in DOMAIN pickings : pickings[i] = self_

C10_Witness ==
    /\ pc = "child" /\ ci < Len(cands) /\ pi = 2
    /\ Len(log) >= 1 /\ log[Len(log)].outcome = "raise"
    /\ pickings[pi] = self_
====
